---- MODULE Spec2Model ----
(***************************************************************************)
(* Model of the playback controller of cosmic-player                       *)
(* (src/src/gstreamer/mod.rs): the App state (position, dragging, video,   *)
(* key_binds, flags.config) and App::update, one action per Message.       *)
(*                                                                         *)
(* Time is counted in whole seconds.  The engine (iced_video_player::Video)*)
(* is the environment: it starts with any paused and looping flags, keeps  *)
(* the flags it is given, answers every seek with Ok or Err, and reports   *)
(* any position in 0..Duration at a tick.  A panic (.expect on a rejected  *)
(* seek, or Duration::from_secs_f64 on a negative value) ends the process: *)
(* status becomes "panicked" and no further message is handled.            *)
(***************************************************************************)
EXTENDS Integers, Sequences, FiniteSets, TLC

\* video.duration(), in seconds: the upper end of the slider range.
Duration == 12

\* The offset of the key-bound relative seeks (Action::message).
SeekStep == 10

NoSeek == -1

NoRel == [n |-> 0, secs |-> 0, target |-> NoSeek]

VARIABLES
    position,     \* App.position
    dragging,     \* App.dragging
    video,        \* App.video: the engine's paused and looping flags
    key_binds,    \* App.key_binds
    config,       \* App.flags.config
    status,       \* "running", or "panicked" once a handler has panicked
    lastMsg,      \* history: the message handled by the last step
    calls,        \* history: the engine calls made by the last step, in order
    pre,          \* history: the playback state before the last step
    lastSeekArg,  \* history: the argument of the last Message::Seek of the
                  \* drag session in progress or ended by the last step
    toggleRun,    \* history: how many of the last two steps were an unbroken
                  \* run of Message::TogglePause (0, 1 or 2)
    loopRun,      \* history: the same for Message::ToggleLoop
    lastRel       \* history: the relative seeks issued since position was last
                  \* written: their number (0, 1 or 2) and the offset and
                  \* target of the last one

vars == <<position, dragging, video, key_binds, config, status,
          lastMsg, calls, pre, lastSeekArg, toggleRun, loopRun,
          lastRel>>

----------------------------------------------------------------------------
\* Key chords and bindings (crate::key_bind)

Modifier == {"Ctrl", "Alt", "Shift", "Super"}

Keys == {"ArrowLeft", "ArrowRight", "Space"}

\* The modifier sets the keyboard events of the model carry.
EventModifiers == {{}, {"Shift"}}

Action == {"SeekBackward", "SeekForward"}

KeyBind(m, k) == [modifiers |-> m, key |-> k]

\* A match on the key alone, whatever the modifiers.
matches_KeyOnly(key_bind, modifiers, key) ==
    key_bind.key = key

\* KeyBind::matches: exact modifier set and the same key.
matches(key_bind, modifiers, key) ==
    /\ key_bind.key = key
    /\ key_bind.modifiers = modifiers

\* key_binds(): the built-in bindings.
DefaultKeyBinds ==
    (KeyBind({}, "ArrowLeft") :> "SeekBackward") @@
    (KeyBind({}, "ArrowRight") :> "SeekForward")

EmptyKeyBinds == [kb \in {} |-> "SeekBackward"]

\* A binding map after user configuration was merged in.
CustomKeyBinds ==
    (KeyBind({}, "ArrowLeft") :> "SeekBackward") @@
    (KeyBind({"Shift"}, "ArrowLeft") :> "SeekForward") @@
    (KeyBind({}, "Space") :> "SeekBackward")

BindingMaps == {DefaultKeyBinds, EmptyKeyBinds, CustomKeyBinds}

----------------------------------------------------------------------------
\* Messages

Msg(t, s, m, k) == [type |-> t, secs |-> s, modifiers |-> m, key |-> k]

Plain(t) == Msg(t, 0, {}, "none")

\* Action::message with the two directions exchanged.
ActionMessage_Swapped(action) ==
    IF action = "SeekBackward"
    THEN Msg("SeekRelative", SeekStep, {}, "none")
    ELSE Msg("SeekRelative", -SeekStep, {}, "none")

\* Action::message
ActionMessage(action) ==
    IF action = "SeekBackward"
    THEN Msg("SeekRelative", -SeekStep, {}, "none")
    ELSE Msg("SeekRelative", SeekStep, {}, "none")

----------------------------------------------------------------------------
\* Engine calls and handler results

SeekCall(target, accurate, ok) ==
    [op |-> "seek", target |-> target, accurate |-> accurate, ok |-> ok]

SetPausedCall(v) == [op |-> "set_paused", value |-> v]

SetLoopingCall(v) == [op |-> "set_looping", value |-> v]

\* The playback state a handler works on.
Cur ==
    [position |-> position, dragging |-> dragging,
     paused |-> video.paused, looping |-> video.looping]

Returned(a, cs) == [app |-> a, calls |-> cs, status |-> "running"]

Panicked(a, cs) == [app |-> a, calls |-> cs, status |-> "panicked"]

\* Duration::from_secs_f64 panics on a negative argument.
FromSecsPanics(secs) == secs < 0

\* TogglePause that always resumes playback instead of flipping the flag.
UpdateTogglePause_Play(a) ==
    Returned([a EXCEPT !.paused = FALSE], <<SetPausedCall(FALSE)>>)

\* Message::TogglePause
UpdateTogglePause(a) ==
    Returned([a EXCEPT !.paused = ~a.paused], <<SetPausedCall(~a.paused)>>)

\* ToggleLoop that always switches looping on instead of flipping the flag.
UpdateToggleLoop_On(a) ==
    Returned([a EXCEPT !.looping = TRUE], <<SetLoopingCall(TRUE)>>)

\* Message::ToggleLoop
UpdateToggleLoop(a) ==
    Returned([a EXCEPT !.looping = ~a.looping], <<SetLoopingCall(~a.looping)>>)

\* Seek that asks the engine for an accurate seek.
UpdateSeek_Accurate(a, secs, ok) ==
    LET a1 == [a EXCEPT !.dragging = TRUE, !.position = secs]
        sk == SeekCall(a1.position, TRUE, ok)
    IN  IF a1.position < 0 THEN Panicked(a1, <<>>)
        ELSE IF ~ok THEN Panicked(a1, <<sk>>)
        ELSE Returned([a1 EXCEPT !.paused = FALSE],
                      <<sk, SetPausedCall(FALSE)>>)

\* Message::Seek(secs); ok is the engine's answer to the seek.
UpdateSeek(a, secs, ok) ==
    LET a1 == [a EXCEPT !.dragging = TRUE, !.position = secs]
        sk == SeekCall(a1.position, FALSE, ok)
    IN  IF FromSecsPanics(a1.position) THEN Panicked(a1, <<>>)
        ELSE IF ~ok THEN Panicked(a1, <<sk>>)
        ELSE Returned([a1 EXCEPT !.paused = FALSE],
                      <<sk, SetPausedCall(FALSE)>>)

\* SeekRelative that marks a drag, as Seek does.
UpdateSeekRelative_Drags(a, secs, ok) ==
    LET a1 == [a EXCEPT !.dragging = TRUE]
        sk == SeekCall(a1.position + secs, TRUE, ok)
    IN  IF a1.position + secs < 0 THEN Panicked(a1, <<>>)
        ELSE IF ~ok THEN Panicked(a1, <<sk>>)
        ELSE Returned(a1, <<sk>>)

\* SeekRelative that also moves the local position to the seek target.
UpdateSeekRelative_Moves(a, secs, ok) ==
    LET sk == SeekCall(a.position + secs, TRUE, ok)
    IN  IF a.position + secs < 0 THEN Panicked(a, <<>>)
        ELSE IF ~ok THEN Panicked(a, <<sk>>)
        ELSE Returned([a EXCEPT !.position = a.position + secs], <<sk>>)

\* Message::SeekRelative(secs)
UpdateSeekRelative(a, secs, ok) ==
    LET sk == SeekCall(a.position + secs, TRUE, ok)
    IN  IF FromSecsPanics(a.position + secs) THEN Panicked(a, <<>>)
        ELSE IF ~ok THEN Panicked(a, <<sk>>)
        ELSE Returned(a, <<sk>>)

\* Message::SeekRelease
UpdateSeekRelease(a, ok) ==
    LET a1 == [a EXCEPT !.dragging = FALSE]
        sk == SeekCall(a1.position, TRUE, ok)
    IN  IF FromSecsPanics(a1.position) THEN Panicked(a1, <<>>)
        ELSE IF ~ok THEN Panicked(a1, <<sk>>)
        ELSE Returned([a1 EXCEPT !.paused = FALSE],
                      <<sk, SetPausedCall(FALSE)>>)

\* EndOfStream that pauses the engine at the end of the stream.
UpdateEndOfStream_Pauses(a) ==
    Returned([a EXCEPT !.paused = TRUE], <<SetPausedCall(TRUE)>>)

\* Message::EndOfStream
UpdateEndOfStream(a) == Returned(a, <<>>)

\* NewFrame that never reads the engine position.
UpdateNewFrame_Stale(a, reported) ==
    IF a.dragging
    THEN Returned([a EXCEPT !.paused = TRUE], <<SetPausedCall(TRUE)>>)
    ELSE Returned(a, <<>>)

\* NewFrame without the dragging guard: the engine position always lands in
\* position.
UpdateNewFrame_Overwrite(a, reported) ==
    IF a.dragging
    THEN Returned([a EXCEPT !.paused = TRUE, !.position = reported],
                  <<SetPausedCall(TRUE)>>)
    ELSE Returned([a EXCEPT !.position = reported], <<>>)

\* NewFrame that only freezes position during a drag, without pausing.
UpdateNewFrame_NoPause(a, reported) ==
    IF a.dragging
    THEN Returned(a, <<>>)
    ELSE Returned([a EXCEPT !.position = reported], <<>>)

\* Message::NewFrame; reported is what video.position() returns.
UpdateNewFrame(a, reported) ==
    IF a.dragging
    THEN Returned([a EXCEPT !.paused = TRUE], <<SetPausedCall(TRUE)>>)
    ELSE Returned([a EXCEPT !.position = reported], <<>>)

\* Message::Key: the bindings of the map that match the chord.
Matching(binds, modifiers, key) ==
    {kb \in DOMAIN binds : matches(kb, modifiers, key)}

\* Key dispatch that falls back to SeekForward when no binding matches.
KeyResults_Fallback(a, binds, modifiers, key) ==
    IF Matching(binds, modifiers, key) = {}
    THEN {UpdateSeekRelative(a, ActionMessage("SeekForward").secs, ok) :
             ok \in BOOLEAN}
    ELSE {UpdateSeekRelative(a, ActionMessage(binds[kb]).secs, ok) :
             kb \in Matching(binds, modifiers, key), ok \in BOOLEAN}

\* Message::Key: the possible outcomes of the loop over key_binds.  A HashMap
\* is iterated in an arbitrary order, so the first match is any match; with
\* no match the loop ends and update returns Command::none().
KeyResults(a, binds, modifiers, key) ==
    IF Matching(binds, modifiers, key) = {}
    THEN {Returned(a, <<>>)}
    ELSE {UpdateSeekRelative(a, ActionMessage(binds[kb]).secs, ok) :
             kb \in Matching(binds, modifiers, key), ok \in BOOLEAN}

----------------------------------------------------------------------------
\* The state machine

Init ==
    /\ position = 0
    /\ dragging = FALSE
    /\ video \in [paused : BOOLEAN, looping : BOOLEAN]
    /\ key_binds \in BindingMaps
    /\ config \in {"dark", "light"}
    /\ status = "running"
    /\ lastMsg = Plain("Init")
    /\ calls = <<>>
    /\ pre = [position |-> 0, dragging |-> FALSE,
              paused |-> video.paused, looping |-> video.looping]
    /\ lastSeekArg = NoSeek
    /\ toggleRun = 0
    /\ loopRun = 0
    /\ lastRel = NoRel

\* The step with result r issued the seek of a SeekRelative.
IssuedRelative(msg, r) ==
    /\ msg.type \in {"SeekRelative", "Key"}
    /\ r.calls # <<>>

\* The step wrote position: a Seek, or a NewFrame outside a drag.
WritesPosition(msg, a) ==
    \/ msg.type = "Seek"
    \/ msg.type = "NewFrame" /\ ~a.dragging

\* One run of App::update on msg with result r.
Handle(msg, r) ==
    /\ status = "running"
    /\ position' = r.app.position
    /\ dragging' = r.app.dragging
    /\ video' = [paused |-> r.app.paused, looping |-> r.app.looping]
    /\ status' = r.status
    /\ calls' = r.calls
    /\ lastMsg' = msg
    /\ pre' = Cur
    /\ lastSeekArg' = IF msg.type = "Seek" THEN msg.secs
                      ELSE IF dragging THEN lastSeekArg ELSE NoSeek
    /\ toggleRun' = IF msg.type # "TogglePause" THEN 0
                    ELSE IF toggleRun = 0 THEN 1 ELSE 2
    /\ loopRun' = IF msg.type # "ToggleLoop" THEN 0
                  ELSE IF loopRun = 0 THEN 1 ELSE 2
    /\ lastRel' = IF IssuedRelative(msg, r)
                  THEN [n |-> IF lastRel.n = 0 THEN 1 ELSE 2,
                        secs |-> r.calls[1].target - position,
                        target |-> r.calls[1].target]
                  ELSE IF WritesPosition(msg, Cur) THEN NoRel
                  ELSE lastRel
    /\ UNCHANGED key_binds

ConfigMsg ==
    \E c \in {"dark", "light"} :
        /\ Handle(Plain("Config"), Returned(Cur, <<>>))
        /\ config' = IF c # config THEN c ELSE config

SystemThemeModeChange ==
    /\ Handle(Plain("SystemThemeModeChange"), Returned(Cur, <<>>))
    /\ UNCHANGED config

KeyMsg ==
    \E m \in EventModifiers, k \in Keys :
        \E r \in KeyResults(Cur, key_binds, m, k) :
            /\ Handle(Msg("Key", 0, m, k), r)
            /\ UNCHANGED config

TogglePause ==
    /\ Handle(Plain("TogglePause"), UpdateTogglePause(Cur))
    /\ UNCHANGED config

ToggleLoop ==
    /\ Handle(Plain("ToggleLoop"), UpdateToggleLoop(Cur))
    /\ UNCHANGED config

\* The slider of App::view produces the values of 0..=video.duration().
Seek ==
    \E secs \in 0..Duration, ok \in BOOLEAN :
        /\ Handle(Msg("Seek", secs, {}, "none"), UpdateSeek(Cur, secs, ok))
        /\ UNCHANGED config

SeekRelative ==
    \E secs \in {-SeekStep, SeekStep}, ok \in BOOLEAN :
        /\ Handle(Msg("SeekRelative", secs, {}, "none"),
                  UpdateSeekRelative(Cur, secs, ok))
        /\ UNCHANGED config

SeekRelease ==
    \E ok \in BOOLEAN :
        /\ Handle(Plain("SeekRelease"), UpdateSeekRelease(Cur, ok))
        /\ UNCHANGED config

EndOfStream ==
    /\ Handle(Plain("EndOfStream"), UpdateEndOfStream(Cur))
    /\ UNCHANGED config

NewFrame ==
    \E reported \in 0..Duration :
        /\ Handle(Msg("NewFrame", reported, {}, "none"),
                  UpdateNewFrame(Cur, reported))
        /\ UNCHANGED config

Next ==
    \/ ConfigMsg
    \/ SystemThemeModeChange
    \/ KeyMsg
    \/ TogglePause
    \/ ToggleLoop
    \/ Seek
    \/ SeekRelative
    \/ SeekRelease
    \/ EndOfStream
    \/ NewFrame

Spec == Init /\ [][Next]_vars

----------------------------------------------------------------------------
\* Properties

\* C1: drag guard.  A step that handles Message::Seek(s) ends with dragging
\* set and position = s, and as long as the drag lasts (until the next Seek
\* or SeekRelease) position stays the argument of that Seek, whatever the
\* engine reports at the ticks in between.
C1_DragGuard ==
    /\ (lastMsg.type = "Seek" => dragging /\ position = lastMsg.secs)
    /\ (dragging => position = lastSeekArg)
    /\ (lastMsg.type = "NewFrame" /\ pre.dragging =>
            dragging /\ position = pre.position)

\* A tick during a drag reported another position and position kept the
\* argument of the Seek.
C1_Witness ==
    /\ lastMsg.type = "NewFrame"
    /\ pre.dragging
    /\ lastMsg.secs # position
    /\ position = lastSeekArg

\* C2: a tick handled while dragging leaves the drag on and the engine
\* paused, so dragging with paused = FALSE does not survive a tick.
C2_TickPausesDrag ==
    lastMsg.type = "NewFrame" /\ pre.dragging =>
        /\ dragging
        /\ video.paused
        /\ calls = <<SetPausedCall(TRUE)>>

\* The transient state (dragging, not paused) was collapsed by a tick.
C2_Witness ==
    /\ lastMsg.type = "NewFrame"
    /\ pre.dragging
    /\ ~pre.paused
    /\ dragging
    /\ video.paused

\* C3: a SeekRelease that ends a drag leaves dragging = FALSE, the engine
\* playing and position at the argument of the last Seek, and the seek it
\* issued is an accurate seek to that position.
C3_DragFinalizes ==
    lastMsg.type = "SeekRelease" /\ pre.dragging =>
        /\ ~dragging
        /\ ~video.paused
        /\ position = lastSeekArg
        /\ Len(calls) >= 1
        /\ calls[1].op = "seek"
        /\ calls[1].target = lastSeekArg
        /\ calls[1].accurate

\* What holds of every SeekRelease that ends a drag: the dragging flag, the
\* position and the seek are as C3 says, and the engine is playing whenever
\* the handler returned.
DragFinalizesWhenReturned ==
    lastMsg.type = "SeekRelease" /\ pre.dragging =>
        /\ ~dragging
        /\ position = lastSeekArg
        /\ Len(calls) >= 1
        /\ calls[1].op = "seek"
        /\ calls[1].target = lastSeekArg
        /\ calls[1].accurate
        /\ (status = "running" => ~video.paused)

\* C4: SeekRelative(d) issues exactly one accurate seek to position + d and
\* leaves position, dragging and paused as they were; position changes only in
\* a NewFrame handled with dragging = FALSE or in a Seek.
C4_SeekRelativeFrame ==
    /\ (lastMsg.type = "SeekRelative" =>
            /\ position = pre.position
            /\ dragging = pre.dragging
            /\ video.paused = pre.paused
            /\ Len(calls) = 1
            /\ calls[1].op = "seek"
            /\ calls[1].target = pre.position + lastMsg.secs
            /\ calls[1].accurate)
    /\ (position # pre.position =>
            \/ lastMsg.type = "NewFrame" /\ ~pre.dragging
            \/ lastMsg.type = "Seek")

\* What holds of every SeekRelative: the frame, and the seek whenever the
\* target could be converted to a Duration.
SeekRelativeFrameWhenConverted ==
    /\ (lastMsg.type = "SeekRelative" =>
            /\ position = pre.position
            /\ dragging = pre.dragging
            /\ video.paused = pre.paused
            /\ (~FromSecsPanics(pre.position + lastMsg.secs) =>
                    /\ Len(calls) = 1
                    /\ calls[1].op = "seek"
                    /\ calls[1].target = pre.position + lastMsg.secs
                    /\ calls[1].accurate))
    /\ (position # pre.position =>
            \/ lastMsg.type = "NewFrame" /\ ~pre.dragging
            \/ lastMsg.type = "Seek")

\* The seek of the last step was rejected by the engine.
SeekRejected == Len(calls) >= 1 /\ calls[1].op = "seek" /\ ~calls[1].ok

\* C5: when the engine rejects the seek of Seek(s), update returns to its
\* caller (the failure is reported, the process goes on), position has the
\* value it had before the call and dragging is TRUE.
C5_SeekFailureReported ==
    lastMsg.type = "Seek" /\ SeekRejected =>
        /\ status = "running"
        /\ position = pre.position
        /\ dragging

\* C6: a seek rejected during SeekRelative or SeekRelease comes back to the
\* caller as a failure: the handler does not panic, and the seek was issued
\* once.
C6_RelativeReleaseFailureReported ==
    lastMsg.type \in {"SeekRelative", "SeekRelease"} /\ SeekRejected =>
        /\ status = "running"
        /\ Len(calls) = 1

\* C7: position stays within 0..Duration.
C7_PositionInRange == 0 <= position /\ position <= Duration

\* The slider put position at the end of the range, and a relative seek was
\* then handled without moving it.
C7_Witness ==
    /\ position = Duration
    /\ lastMsg.type = "SeekRelative"
    /\ lastMsg.secs = SeekStep
    /\ status = "running"

\* C8: two TogglePause messages in a row, with no other message between
\* them, leave paused as it was before the first, and position, dragging and
\* looping unchanged.  In the state between the two, pre is the state before
\* the first.
C8_TogglePauseTwice ==
    [][lastMsg.type = "TogglePause" /\ lastMsg'.type = "TogglePause" =>
          /\ video'.paused = pre.paused
          /\ position' = pre.position
          /\ dragging' = pre.dragging
          /\ video'.looping = pre.looping
          /\ status' = "running"]_vars

\* Two TogglePause messages in a row were handled during a drag, away from
\* the initial position.
C8_Witness ==
    /\ toggleRun = 2
    /\ lastMsg.type = "TogglePause"
    /\ dragging
    /\ position > 0

\* The chord of the last Key message and the bindings it matches.
LastMatching == Matching(key_binds, lastMsg.modifiers, lastMsg.key)

\* C9: a Key message whose chord matches no binding makes no engine call and
\* leaves paused, looping, position and dragging unchanged.
C9_UnboundChordNoOp ==
    lastMsg.type = "Key" /\ LastMatching = {} =>
        /\ calls = <<>>
        /\ Cur = pre
        /\ status = "running"

\* A chord that differs from a binding only by a modifier was dispatched
\* after the state had moved away from the initial one.
C9_Witness ==
    /\ lastMsg.type = "Key"
    /\ LastMatching = {}
    /\ lastMsg.modifiers = {"Shift"}
    /\ \E kb \in DOMAIN key_binds : kb.key = lastMsg.key
    /\ position > 0
    /\ calls = <<>>

\* A chord was dispatched on the empty binding map.
C9_WitnessEmptyMap ==
    /\ lastMsg.type = "Key"
    /\ key_binds = EmptyKeyBinds
    /\ position > 0

\* The outcome of the last step: playback state, engine calls and status.
Outcome == [app |-> Cur, calls |-> calls, status |-> status]

\* C10: dispatching a chord bound to SeekBackward has an outcome of
\* SeekRelative(-10.0) on the state before it, and a chord bound to
\* SeekForward an outcome of SeekRelative(10.0): the same seek target and
\* accuracy, the same state, the same panic.
C10_KeyIsSeekRelative ==
    lastMsg.type = "Key" =>
        \A kb \in LastMatching :
            /\ key_binds[kb] = "SeekBackward" =>
                  \E ok \in BOOLEAN : Outcome = UpdateSeekRelative(pre, -10, ok)
            /\ key_binds[kb] = "SeekForward" =>
                  \E ok \in BOOLEAN : Outcome = UpdateSeekRelative(pre, 10, ok)

\* A chord bound to SeekBackward was dispatched from a position past 10 s and
\* the accurate seek to position - 10 was issued.
C10_Witness ==
    /\ lastMsg.type = "Key"
    /\ \E kb \in LastMatching : key_binds[kb] = "SeekBackward"
    /\ status = "running"
    /\ pre.position > 10
    /\ calls = <<SeekCall(pre.position - 10, TRUE, TRUE)>>
    /\ position = pre.position

\* A chord bound to SeekForward was dispatched and the accurate seek to
\* position + 10 was issued.
C10_WitnessForward ==
    /\ lastMsg.type = "Key"
    /\ \E kb \in LastMatching : key_binds[kb] = "SeekForward"
    /\ status = "running"
    /\ calls = <<SeekCall(pre.position + 10, TRUE, TRUE)>>

\* The possible outcomes of dispatching the chord of the last Key message on
\* the state before it.
LastKeyResults == KeyResults(pre, key_binds, lastMsg.modifiers, lastMsg.key)

C12_SeekAccuracyAndOrder ==
    /\ \A i \in 1..Len(calls) :
          calls[i].op = "seek" =>
              /\ lastMsg.type \in {"Seek", "SeekRelative", "SeekRelease", "Key"}
              /\ calls[i].accurate = (lastMsg.type # "Seek")
    /\ lastMsg.type \in {"Seek", "SeekRelease"} =>
          /\ Len(calls) >= 1
          /\ calls[1].op = "seek"
          /\ calls[1].target = position
          /\ \A i \in 2..Len(calls) : calls[i] = SetPausedCall(FALSE)

\* A Seek on a paused engine issued the fast seek and then resumed playback.
C12_Witness ==
    /\ lastMsg.type = "Seek"
    /\ pre.paused
    /\ position > 0
    /\ calls = <<SeekCall(position, FALSE, TRUE), SetPausedCall(FALSE)>>

\* A SeekRelease issued the accurate seek and then resumed playback.
C12_WitnessRelease ==
    /\ lastMsg.type = "SeekRelease"
    /\ pre.paused
    /\ position > 0
    /\ calls = <<SeekCall(position, TRUE, TRUE), SetPausedCall(FALSE)>>

\* C13: a NewFrame handled with dragging = FALSE sets position to the
\* position the engine reports, leaves paused, looping and dragging unchanged
\* and makes no engine call; and a step that issues a seek never moves
\* position to what the seek did: SeekRelative and SeekRelease leave position
\* as it was and Seek leaves the argument it was given.
C13_TickReadsBack ==
    /\ lastMsg.type = "NewFrame" /\ ~pre.dragging =>
          /\ position = lastMsg.secs
          /\ video.paused = pre.paused
          /\ video.looping = pre.looping
          /\ dragging = pre.dragging
          /\ calls = <<>>
          /\ status = "running"
    /\ (\E i \in 1..Len(calls) : calls[i].op = "seek") =>
          position = IF lastMsg.type = "Seek" THEN lastMsg.secs
                     ELSE pre.position

\* A tick outside a drag moved position to an engine report that differs
\* from the position before it.
C13_Witness ==
    /\ lastMsg.type = "NewFrame"
    /\ ~pre.dragging
    /\ lastMsg.secs # pre.position
    /\ position = lastMsg.secs
    /\ pre.paused
    /\ video.paused

\* C14: ToggleLoop flips looping, leaves paused, position and dragging
\* unchanged and makes no engine call but set_looping; the second of two
\* ToggleLoop messages in a row leaves looping as it was before the first.
C14_ToggleLoopFrame ==
    [][lastMsg'.type = "ToggleLoop" =>
          /\ video'.looping = ~video.looping
          /\ video'.paused = video.paused
          /\ position' = position
          /\ dragging' = dragging
          /\ calls' = <<SetLoopingCall(~video.looping)>>
          /\ status' = "running"
          /\ (lastMsg.type = "ToggleLoop" => video'.looping = pre.looping)]_vars

\* Two ToggleLoop messages in a row were handled during a paused drag and
\* looping is back on.
C14_Witness ==
    /\ loopRun = 2
    /\ lastMsg.type = "ToggleLoop"
    /\ video.looping
    /\ dragging
    /\ video.paused
    /\ position > 0

\* C15: EndOfStream leaves paused, looping, position and dragging unchanged
\* and makes no engine call, and it is not terminal: every message can still
\* be handled after it.
C15_EndOfStreamNoOp ==
    lastMsg.type = "EndOfStream" =>
        /\ Cur = pre
        /\ calls = <<>>
        /\ status = "running"
        /\ ENABLED TogglePause
        /\ ENABLED ToggleLoop
        /\ ENABLED Seek
        /\ ENABLED SeekRelative
        /\ ENABLED SeekRelease
        /\ ENABLED NewFrame
        /\ ENABLED KeyMsg
        /\ ENABLED EndOfStream
        /\ ENABLED ConfigMsg
        /\ ENABLED SystemThemeModeChange

\* EndOfStream was handled at the end of the range while the engine was
\* playing in a loop.
C15_Witness ==
    /\ lastMsg.type = "EndOfStream"
    /\ position = Duration
    /\ ~video.paused
    /\ video.looping
    /\ Cur = pre

\* C16: the target position + delta of every relative seek dispatched from a
\* key binding (delta -10 for SeekBackward, 10 for SeekForward) is
\* non-negative, so the handler never panics converting it to a Duration.
C16_KeySeekTargetNonNegative ==
    lastMsg.type = "Key" =>
        \A kb \in LastMatching :
            /\ pre.position + ActionMessage(key_binds[kb]).secs >= 0
            /\ ~(status = "panicked" /\ calls = <<>>)

\* C17: dragging is FALSE initially, a step that sets it is a Seek and a step
\* that clears it is a SeekRelease; no other message changes it.
C17_DraggingOwners ==
    /\ lastMsg.type = "Init" => ~dragging
    /\ dragging /\ ~pre.dragging => lastMsg.type = "Seek"
    /\ ~dragging /\ pre.dragging => lastMsg.type = "SeekRelease"
    /\ lastMsg.type \in {"TogglePause", "ToggleLoop", "SeekRelative", "Key",
                         "NewFrame", "EndOfStream", "Config",
                         "SystemThemeModeChange"} =>
          dragging = pre.dragging

\* A key-bound relative seek was handled during a drag and the drag is still
\* on.
C17_Witness ==
    /\ lastMsg.type = "Key"
    /\ LastMatching # {}
    /\ calls # <<>>
    /\ pre.dragging
    /\ dragging
    /\ video.paused

\* A drag was started by Seek and ended by SeekRelease.
C17_WitnessRelease ==
    /\ lastMsg.type = "SeekRelease"
    /\ pre.dragging
    /\ ~dragging

\* C18: every SeekRelease, with or without a drag in progress and whatever
\* the pause state, leaves dragging = FALSE and the engine playing, and its
\* first engine call is an accurate seek to position.
C18_ReleaseAlwaysResumes ==
    lastMsg.type = "SeekRelease" =>
        /\ ~dragging
        /\ ~video.paused
        /\ position = pre.position
        /\ Len(calls) >= 1
        /\ calls[1].op = "seek"
        /\ calls[1].target = position
        /\ calls[1].accurate

\* What holds of every SeekRelease: dragging is cleared, the accurate seek to
\* position is issued, and the engine is playing whenever the handler
\* returned.
ReleaseResumesWhenReturned ==
    lastMsg.type = "SeekRelease" =>
        /\ ~dragging
        /\ position = pre.position
        /\ Len(calls) >= 1
        /\ calls[1].op = "seek"
        /\ calls[1].target = position
        /\ calls[1].accurate
        /\ (status = "running" => calls = <<SeekCall(position, TRUE, TRUE),
                                            SetPausedCall(FALSE)>>)
        /\ (status = "running" => ~video.paused)

\* C19: a relative seek that follows another one of the same offset, with no
\* Seek and no NewFrame outside a drag between the two, issues the same
\* target position + d as the first: the offsets do not accumulate.
C19_RelativeSeeksDoNotAccumulate ==
    [][/\ lastMsg'.type \in {"SeekRelative", "Key"}
       /\ calls' # <<>>
       /\ lastRel.n >= 1
       /\ calls'[1].target - position = lastRel.secs
       => /\ calls'[1].target = lastRel.target
          /\ position' = position]_vars

\* Two relative seeks were issued during a drag with nothing writing position
\* between them, the last one a forward seek that returned.
C19_Witness ==
    /\ lastRel.n = 2
    /\ lastMsg.type \in {"SeekRelative", "Key"}
    /\ lastRel.secs = SeekStep
    /\ calls = <<SeekCall(position + SeekStep, TRUE, TRUE)>>
    /\ dragging
    /\ video.paused
    /\ position > 0

====
